---- MODULE Spec2Model ----
(***************************************************************************)
(* The Tendermint light client's misbehaviour path:                        *)
(*   x/ibc/light-clients/07-tendermint/types/misbehaviour_handle.go        *)
(* ClientState.CheckMisbehaviourAndUpdateState and checkMisbehaviourHeader.*)
(*                                                                         *)
(* Optional values (a nil pointer, an absent store entry, a value that     *)
(* fails to decode) are sequences of length 0 or 1: << >> is nil/absent,   *)
(* <<v>> is the value v.                                                   *)
(***************************************************************************)
EXTENDS Integers, Sequences, FiniteSets, TLC

VARIABLES
    clientState,  \* the client state the caller holds and persists
    clientStore,  \* the client's store: trusted height -> consensus state
    pc,           \* "idle", "returned" (a call's result awaits the caller)
    call,         \* the arguments and the result of the call that returned
    frozenAt,     \* history: the highest height the client was ever frozen at
    hdrArgs,      \* header specification: the arguments of the header check
    hdrErr,       \* header specification: the error the header check returned
    query         \* pagination specification: the store's size, the last
                  \* page request and response, the records returned so far

vars ==
    <<clientState, clientStore, pc, call, frozenAt, hdrArgs, hdrErr, query>>

(***************************************************************************)
(* Bounds of the model.                                                    *)
(***************************************************************************)
\* version heights of headers and of the frozen height range over 1..MaxHeight
MaxHeight == 3
\* block times range over 2..MaxTime
MaxTime == 3
\* total voting power of the trusted validator sets of the header
\* specification ranges over 1..MaxPower
MaxPower == 4
\* width in bits of the unsigned/signed integers holding version heights
\* (uint64/int64 in the code)
UintBits == 3
\* small stores of the pagination specification hold 0..MaxRecords records
MaxRecords == 6
\* small page limits range over 0..MaxPageLimit
MaxPageLimit == 3

(***************************************************************************)
(* Constants of the pagination test (pagination_test.go:35-41).            *)
(***************************************************************************)
numBalances == 235
maxLimit == 100
overLimit == 101
underLimit == 10
lastPageRecords == 35

(***************************************************************************)
(* Heights (clienttypes.Height) and chain identifiers.                     *)
(***************************************************************************)
NewHeight(versionNumber, versionHeight) ==
    [VersionNumber |-> versionNumber, VersionHeight |-> versionHeight]

ZeroHeight == NewHeight(0, 0)

IsZero(h) == h.VersionNumber = 0 /\ h.VersionHeight = 0

\* Height.Compare: by version number first, then by version height
Compare(a, b) ==
    IF a.VersionNumber < b.VersionNumber THEN -1
    ELSE IF a.VersionNumber > b.VersionNumber THEN 1
    ELSE IF a.VersionHeight < b.VersionHeight THEN -1
    ELSE IF a.VersionHeight > b.VersionHeight THEN 1
    ELSE 0

LTE(a, b) == Compare(a, b) <= 0

LT(a, b) == Compare(a, b) < 0

\* A chain identifier "<Base>" (Suffix = NoSuffix) or "<Base>-<Suffix>".
NoSuffix == -1

ChainID(base, suffix) == [Base |-> base, Suffix |-> suffix]

\* IsEpochFormat: the identifier ends in "-<n>" with n >= 1 (no leading zero)
IsEpochFormat(chainID) == chainID.Suffix >= 1

\* ParseChainID: the epoch number of an epoch-format identifier, 0 otherwise
ParseChainID(chainID) == IF IsEpochFormat(chainID) THEN chainID.Suffix ELSE 0

\* SetEpochNumber: the identifier with its epoch number replaced
SetEpochNumber(chainID, epoch) == ChainID(chainID.Base, epoch)

(***************************************************************************)
(* Errors: the kind of the failure and the header (1, 2, or 0 for none)    *)
(* the wrapping message names.  The kinds follow the return sites of the   *)
(* two functions.                                                          *)
(***************************************************************************)
Err(kind, header) == [Kind |-> kind, Header |-> header]

NoError == Err("nil", 0)

ErrInvalidClientType == Err("InvalidClientType", 0)

ErrAlreadyFrozen == Err("AlreadyFrozen", 0)

ErrStaleMisbehaviour == Err("StaleMisbehaviour", 0)

ErrConsensusStateNotFound(header) == Err("TrustedConsensusStateNotFound", header)

\* sdkerrors.Wrap(err, "verifying HeaderN in Misbehaviour failed")
WrapHeader(err, header) == Err(err.Kind, header)

(***************************************************************************)
(* Headers and misbehaviour.                                               *)
(***************************************************************************)
\* Header.GetHeight: the epoch of the header's chain identifier and the
\* header's block height
HeaderGetHeight(header) ==
    NewHeight(ParseChainID(header.ChainID), header.BlockHeight)

\* Misbehaviour.GetHeight: the height of Header1
MisbehaviourGetHeight(misbehaviour) == HeaderGetHeight(misbehaviour.Header1)

Min(a, b) == IF a <= b THEN a ELSE b

\* Misbehaviour.GetTime: the earlier of the two headers' timestamps
MisbehaviourGetTime(misbehaviour) ==
    Min(misbehaviour.Header1.Time, misbehaviour.Header2.Time)

\* GetConsensusState: the consensus state stored at a height, << >> if none
GetConsensusState(store, height) ==
    IF height \in DOMAIN store THEN store[height] ELSE << >>

\* ClientState.IsFrozen
IsFrozen(cs) == ~IsZero(cs.FrozenHeight)

(***************************************************************************)
(* External collaborators of the per-header check.                         *)
(***************************************************************************)
\* tmtypes.ValidatorSetFromProto: the decoded validator set (its hash and
\* total voting power), << >> when the message is malformed
ValidatorSetFromProto(proto) ==
    IF proto.WellFormed
    THEN <<[Hash |-> proto.Hash, TotalPower |-> proto.TotalPower]>>
    ELSE << >>

\* tmtypes.CommitFromProto: the decoded commit (the chain identifier its
\* votes were signed for and the voting power of the trusted validators
\* that signed it), << >> when the message is malformed
CommitFromProto(proto) ==
    IF proto.WellFormed
    THEN <<[SignedChainID |-> proto.SignedChainID,
            SignedPower |-> proto.SignedPower]>>
    ELSE << >>

\* checkTrustedHeader: the header's trusted validators must hash to the
\* trusted consensus state's NextValidatorsHash
checkTrustedHeader(header, consState) ==
    IF header.TrustedValidators.WellFormed
       /\ header.TrustedValidators.Hash = consState.NextValidatorsHash
    THEN NoError
    ELSE Err("InvalidValidatorSet", 0)

\* Fraction.ToTendermint
ToTendermint(trustLevel) ==
    [Numerator |-> trustLevel.Numerator, Denominator |-> trustLevel.Denominator]

\* The Trust Evaluator, ValidatorSet.VerifyCommitLightTrusting: the votes of
\* the commit verify only for the chain identifier they were signed for, and
\* the trusted validators that signed must hold at least trustLevel of the
\* trusted set's total voting power
VerifyCommitLightTrusting(vals, chainID, commit, trustLevel) ==
    /\ commit.SignedChainID = chainID
    /\ commit.SignedPower * trustLevel.Denominator
           >= trustLevel.Numerator * vals.TotalPower

(***************************************************************************)
(* checkMisbehaviourHeader (misbehaviour_handle.go:116-159).               *)
(***************************************************************************)
\* a variant of line 136 that lets the exact boundary through
UnbondingPeriodExpired_Strict(cs, consState, currentTimestamp) ==
    currentTimestamp - consState.Timestamp > cs.UnbondingPeriod

\* line 136: the trusted consensus state is an unbonding period old or older
UnbondingPeriodExpired(cs, consState, currentTimestamp) ==
    currentTimestamp - consState.Timestamp >= cs.UnbondingPeriod

\* a variant of lines 144-149 that never substitutes the header's epoch
TrustChainID_NoSubstitution(cs, header) == cs.ChainID

\* lines 144-149: the chain identifier the commit is verified against
TrustChainID(cs, header) ==
    IF IsEpochFormat(cs.ChainID)
    THEN SetEpochNumber(cs.ChainID,
                        HeaderGetHeight(header).VersionNumber)
    ELSE cs.ChainID

\* a variant of lines 151-157 that evaluates against a fixed 2/3 instead of
\* the client's trust level
TrustEvaluation_FixedTwoThirds(cs, tmTrustedValset, tmCommit, header) ==
    VerifyCommitLightTrusting(tmTrustedValset, TrustChainID(cs, header),
                              tmCommit,
                              [Numerator |-> 2, Denominator |-> 3])

\* lines 151-157: the trust evaluation of the commit against the trusted
\* validator set, with the client's trust level
TrustEvaluation(cs, tmTrustedValset, tmCommit, header) ==
    VerifyCommitLightTrusting(tmTrustedValset, TrustChainID(cs, header),
                              tmCommit, ToTendermint(cs.TrustLevel))

\* a variant of lines 116-159 that makes the unbonding-period check of
\* line 136 before the trusted-field match of line 131
checkMisbehaviourHeader_UnbondingFirst(cs, consState, header, currentTimestamp) ==
    LET tmTrustedValset == ValidatorSetFromProto(header.TrustedValidators)
        tmCommit == CommitFromProto(header.Commit)
    IN  IF tmTrustedValset = << >> THEN Err("MalformedValidatorSet", 0)
        ELSE IF tmCommit = << >> THEN Err("MalformedCommit", 0)
        ELSE IF UnbondingPeriodExpired(cs, consState, currentTimestamp)
             THEN Err("UnbondingPeriodExpired", 0)
        ELSE IF checkTrustedHeader(header, consState) # NoError
             THEN checkTrustedHeader(header, consState)
        ELSE IF ~TrustEvaluation(cs, tmTrustedValset[1], tmCommit[1], header)
             THEN Err("InsufficientTrustedPower", 0)
        ELSE NoError

\* lines 116-159
checkMisbehaviourHeader(cs, consState, header, currentTimestamp) ==
    LET tmTrustedValset == ValidatorSetFromProto(header.TrustedValidators)
        tmCommit == CommitFromProto(header.Commit)
    IN  IF tmTrustedValset = << >> THEN Err("MalformedValidatorSet", 0)
        ELSE IF tmCommit = << >> THEN Err("MalformedCommit", 0)
        ELSE IF checkTrustedHeader(header, consState) # NoError
             THEN checkTrustedHeader(header, consState)
        ELSE IF UnbondingPeriodExpired(cs, consState, currentTimestamp)
             THEN Err("UnbondingPeriodExpired", 0)
        ELSE IF ~TrustEvaluation(cs, tmTrustedValset[1], tmCommit[1], header)
             THEN Err("InsufficientTrustedPower", 0)
        ELSE NoError

(***************************************************************************)
(* ClientState.CheckMisbehaviourAndUpdateState                             *)
(* (misbehaviour_handle.go:22-112).                                        *)
(***************************************************************************)
\* the result of a call: the error and the returned client state
\* (<< >> is the nil client state)
Fail(err) == [Err |-> err, ClientState |-> << >>]

Ok(cs) == [Err |-> NoError, ClientState |-> <<cs>>]

\* variants of line 34: the comparison turned around, the comparison made
\* strict, and the check left out
AlreadyFrozen_Reversed(cs, height) ==
    IsFrozen(cs) /\ LTE(height, cs.FrozenHeight)

AlreadyFrozen_Strict(cs, height) ==
    IsFrozen(cs) /\ LT(cs.FrozenHeight, height)

AlreadyFrozen_NoCheck(cs, height) == FALSE

\* line 34: the client is frozen at or before the misbehaviour's height
AlreadyFrozen(cs, height) == IsFrozen(cs) /\ LTE(cs.FrozenHeight, height)

\* uint64 subtraction and the conversion int64(x) of line 63
Uint64Sub(a, b) == (a - b) % (2 ^ UintBits)

\* a variant of the conversion of line 63 that keeps the unsigned value
Int64_NoReinterpret(u) == u

Int64(u) == IF u >= 2 ^ (UintBits - 1) THEN u - 2 ^ UintBits ELSE u

\* a variant of lines 58-70 without the epoch comparison
AgeBlocks_NoEpochCheck(cs, misbehaviour) ==
    Int64(Uint64Sub(cs.LatestHeight.VersionHeight,
                    MisbehaviourGetHeight(misbehaviour).VersionHeight))

\* lines 58-70: the age of the misbehaviour in blocks
AgeBlocks(cs, misbehaviour) ==
    IF MisbehaviourGetHeight(misbehaviour).VersionNumber
           = cs.LatestHeight.VersionNumber
    THEN Int64(Uint64Sub(cs.LatestHeight.VersionHeight,
                         MisbehaviourGetHeight(misbehaviour).VersionHeight))
    ELSE 0

\* line 56: the age of the misbehaviour as a duration
AgeDuration(ctx, misbehaviour) ==
    ctx.BlockTime - MisbehaviourGetTime(misbehaviour)

\* a variant of lines 84-87 that falls back to the run's evidence params
\* when the context supplies none
IsStale_DefaultParams(consensusParams, ageDuration, ageBlocks) ==
    \/ ageDuration > 1
    \/ ageBlocks > 1

\* a variant of lines 84-87 that requires both bounds to be exceeded
IsStale_And(consensusParams, ageDuration, ageBlocks) ==
    /\ consensusParams # << >>
    /\ consensusParams[1].Evidence # << >>
    /\ ageDuration > consensusParams[1].Evidence[1].MaxAgeDuration
    /\ ageBlocks > consensusParams[1].Evidence[1].MaxAgeNumBlocks

\* lines 84-87: the misbehaviour is too old
IsStale(consensusParams, ageDuration, ageBlocks) ==
    /\ consensusParams # << >>
    /\ consensusParams[1].Evidence # << >>
    /\ \/ ageDuration > consensusParams[1].Evidence[1].MaxAgeDuration
       \/ ageBlocks > consensusParams[1].Evidence[1].MaxAgeNumBlocks

\* a variant of line 110 that also moves the latest height
Freeze_MovesLatestHeight(cs, misbehaviour) ==
    [cs EXCEPT !.FrozenHeight = MisbehaviourGetHeight(misbehaviour),
               !.LatestHeight = MisbehaviourGetHeight(misbehaviour)]

\* line 110: the copy of the client state frozen at the misbehaviour's height
Freeze(cs, misbehaviour) ==
    [cs EXCEPT !.FrozenHeight = MisbehaviourGetHeight(misbehaviour)]

\* variants of lines 94-111: the frozen copy returned along with the error
\* of the second header; the second header checked against the first
\* header's consensus state
VerifyHeadersAndFreeze_ReturnsStateOnError(cs, ctx, consState1, consState2, misbehaviour) ==
    LET err1 == checkMisbehaviourHeader(
                    cs, consState1, misbehaviour.Header1, ctx.BlockTime)
        err2 == checkMisbehaviourHeader(
                    cs, consState2, misbehaviour.Header2, ctx.BlockTime)
    IN  IF err1 # NoError THEN Fail(WrapHeader(err1, 1))
        ELSE IF err2 # NoError
             THEN [Err |-> WrapHeader(err2, 2),
                   ClientState |-> <<Freeze(cs, misbehaviour)>>]
        ELSE Ok(Freeze(cs, misbehaviour))

VerifyHeadersAndFreeze_OneConsensusState(cs, ctx, consState1, consState2, misbehaviour) ==
    LET err1 == checkMisbehaviourHeader(
                    cs, consState1, misbehaviour.Header1, ctx.BlockTime)
        err2 == checkMisbehaviourHeader(
                    cs, consState1, misbehaviour.Header2, ctx.BlockTime)
    IN  IF err1 # NoError THEN Fail(WrapHeader(err1, 1))
        ELSE IF err2 # NoError THEN Fail(WrapHeader(err2, 2))
        ELSE Ok(Freeze(cs, misbehaviour))

\* lines 94-111: the two header checks, then the freeze
VerifyHeadersAndFreeze(cs, ctx, consState1, consState2, misbehaviour) ==
    LET err1 == checkMisbehaviourHeader(
                    cs, consState1, misbehaviour.Header1, ctx.BlockTime)
        err2 == checkMisbehaviourHeader(
                    cs, consState2, misbehaviour.Header2, ctx.BlockTime)
    IN  IF err1 # NoError THEN Fail(WrapHeader(err1, 1))
        ELSE IF err2 # NoError THEN Fail(WrapHeader(err2, 2))
        ELSE Ok(Freeze(cs, misbehaviour))

\* a variant of lines 39-52 that looks up Header2's consensus state first
CheckMisbehaviourAndUpdateState_Header2First(cs, ctx, store, misbehaviour) ==
    IF ~misbehaviour.Tendermint THEN Fail(ErrInvalidClientType)
    ELSE IF AlreadyFrozen(cs, MisbehaviourGetHeight(misbehaviour))
         THEN Fail(ErrAlreadyFrozen)
    ELSE LET tmConsensusState1 ==
                 GetConsensusState(store, misbehaviour.Header1.TrustedHeight)
             tmConsensusState2 ==
                 GetConsensusState(store, misbehaviour.Header2.TrustedHeight)
         IN  IF tmConsensusState2 = << >>
             THEN Fail(ErrConsensusStateNotFound(2))
             ELSE IF tmConsensusState1 = << >>
             THEN Fail(ErrConsensusStateNotFound(1))
             ELSE IF IsStale(ctx.ConsensusParams,
                             AgeDuration(ctx, misbehaviour),
                             AgeBlocks(cs, misbehaviour))
             THEN Fail(ErrStaleMisbehaviour)
             ELSE VerifyHeadersAndFreeze(cs, ctx, tmConsensusState1[1],
                                         tmConsensusState2[1], misbehaviour)

\* a variant of lines 33-52 that makes the frozen check after the lookups
CheckMisbehaviourAndUpdateState_LookupsFirst(cs, ctx, store, misbehaviour) ==
    IF ~misbehaviour.Tendermint THEN Fail(ErrInvalidClientType)
    ELSE LET tmConsensusState1 ==
                 GetConsensusState(store, misbehaviour.Header1.TrustedHeight)
             tmConsensusState2 ==
                 GetConsensusState(store, misbehaviour.Header2.TrustedHeight)
         IN  IF tmConsensusState1 = << >>
             THEN Fail(ErrConsensusStateNotFound(1))
             ELSE IF tmConsensusState2 = << >>
             THEN Fail(ErrConsensusStateNotFound(2))
             ELSE IF AlreadyFrozen(cs, MisbehaviourGetHeight(misbehaviour))
             THEN Fail(ErrAlreadyFrozen)
             ELSE IF IsStale(ctx.ConsensusParams,
                             AgeDuration(ctx, misbehaviour),
                             AgeBlocks(cs, misbehaviour))
             THEN Fail(ErrStaleMisbehaviour)
             ELSE VerifyHeadersAndFreeze(cs, ctx, tmConsensusState1[1],
                                         tmConsensusState2[1], misbehaviour)

CheckMisbehaviourAndUpdateState(cs, ctx, store, misbehaviour) ==
    IF ~misbehaviour.Tendermint THEN Fail(ErrInvalidClientType)
    ELSE IF AlreadyFrozen(cs, MisbehaviourGetHeight(misbehaviour))
         THEN Fail(ErrAlreadyFrozen)
    ELSE LET tmConsensusState1 ==
                 GetConsensusState(store, misbehaviour.Header1.TrustedHeight)
             tmConsensusState2 ==
                 GetConsensusState(store, misbehaviour.Header2.TrustedHeight)
         IN  IF tmConsensusState1 = << >>
             THEN Fail(ErrConsensusStateNotFound(1))
             ELSE IF tmConsensusState2 = << >>
             THEN Fail(ErrConsensusStateNotFound(2))
             ELSE IF IsStale(ctx.ConsensusParams,
                             AgeDuration(ctx, misbehaviour),
                             AgeBlocks(cs, misbehaviour))
             THEN Fail(ErrStaleMisbehaviour)
             ELSE VerifyHeadersAndFreeze(cs, ctx, tmConsensusState1[1],
                                         tmConsensusState2[1], misbehaviour)

(***************************************************************************)
(* Input sets of the client specification.                                 *)
(***************************************************************************)
TrustLevel(numerator, denominator) ==
    [Numerator |-> numerator, Denominator |-> denominator]

\* the client tracks chain "gaia", whose identifier carries the epoch
ClientChainID == ChainID("gaia", 1)

ValidatorSetProto(hash, totalPower) ==
    [WellFormed |-> TRUE, Hash |-> hash, TotalPower |-> totalPower]

CommitProto(signedChainID, signedPower) ==
    [WellFormed |-> TRUE, SignedChainID |-> signedChainID,
     SignedPower |-> signedPower]

\* messages that do not decode
MalformedValidatorSet ==
    [WellFormed |-> FALSE, Hash |-> "", TotalPower |-> 0]

MalformedCommit ==
    [WellFormed |-> FALSE, SignedChainID |-> ChainID("", NoSuffix),
     SignedPower |-> 0]

ConsensusState(timestamp, nextValidatorsHash) ==
    [Timestamp |-> timestamp, NextValidatorsHash |-> nextValidatorsHash]

\* the heights the headers name as their trust basis
TrustedHeights == {NewHeight(1, 1), NewHeight(1, 2)}

\* the client stores: a consensus state at (1,1) and possibly one at (1,2)
ClientStores ==
    { (NewHeight(1, 1) :> <<ConsensusState(1, "vals")>>),
      (NewHeight(1, 1) :> <<ConsensusState(1, "vals")>>)
          @@ (NewHeight(1, 2) :> <<ConsensusState(2, "vals")>>) }

\* chain identifiers of the submitted headers: epochs 0 and 1 of the chain
HeaderChainIDs == {ChainID("gaia", 0), ChainID("gaia", 1)}

\* block heights of the submitted headers: ValidateBasic rejects height 0
BlockHeights == 1 .. MaxHeight

HeaderTimes == {1, 2}

\* the trusted validator set holds 100 voting power; 60 or 70 of it signed
SignedPowers == {60, 70}

\* the headers of a misbehaviour at one height of one chain: ValidateBasic
\* has checked that the two headers have the same height; a commit either
\* fails to decode or is signed for the header's chain
Headers(chainID, blockHeight) ==
    [ChainID : {chainID}, BlockHeight : {blockHeight}, Time : HeaderTimes,
     TrustedHeight : TrustedHeights,
     TrustedValidators : {ValidatorSetProto("vals", 100)},
     Commit : {MalformedCommit}
                  \cup {CommitProto(chainID, p) : p \in SignedPowers}]

TendermintMisbehaviours ==
    UNION { [Tendermint : {TRUE},
             Header1 : Headers(c, h), Header2 : Headers(c, h)] :
            <<c, h>> \in HeaderChainIDs \X BlockHeights }

\* a misbehaviour of another light client type, at some height
OtherMisbehaviours ==
    { [Tendermint |-> FALSE, Header1 |-> hd, Header2 |-> hd] :
      hd \in { x \in UNION { Headers(c, h) :
                             <<c, h>> \in HeaderChainIDs \X BlockHeights } :
               x.Time = 1 /\ x.TrustedHeight = NewHeight(1, 1)
               /\ x.Commit.SignedPower = 70 } }

Misbehaviours == TendermintMisbehaviours \cup OtherMisbehaviours

EvidenceParams(maxAgeDuration, maxAgeNumBlocks) ==
    [MaxAgeDuration |-> maxAgeDuration, MaxAgeNumBlocks |-> maxAgeNumBlocks]

\* ctx.ConsensusParams(): nil, without evidence params, or with them
ConsensusParamsSet ==
    { << >>, <<[Evidence |-> << >>]>>,
      <<[Evidence |-> <<EvidenceParams(1, 1)>>]>> }

BlockTimes == 2 .. MaxTime

Contexts == [BlockTime : BlockTimes, ConsensusParams : ConsensusParamsSet]

Heights ==
    { NewHeight(v, h) : <<v, h>> \in {0, 1} \X BlockHeights }

LatestHeights == {NewHeight(1, 2), NewHeight(1, MaxHeight)}

ClientStates ==
    [ChainID : {ClientChainID}, TrustLevel : {TrustLevel(2, 3)},
     TrustingPeriod : {1}, UnbondingPeriod : {2}, MaxClockDrift : {1},
     LatestHeight : LatestHeights,
     FrozenHeight : {ZeroHeight} \cup Heights]

(***************************************************************************)
(* Input sets of the header specification.                                 *)
(***************************************************************************)
HdrChainIDs ==
    {ChainID("gaia", NoSuffix), ChainID("gaia", 0), ChainID("gaia", 1),
     ChainID("gaia", 2)}

\* a trusted validator set and the commit checked against it: the signed
\* power is at most the total power of the set
HdrValsAndCommits ==
    { <<v, c>> \in
        ({MalformedValidatorSet}
           \cup { ValidatorSetProto(hs, p) :
                  <<hs, p>> \in {"vals", "other"} \X ((1 .. MaxPower) \cup {100}) })
        \X
        ({MalformedCommit}
           \cup { CommitProto(id, p) :
                  <<id, p>> \in HdrChainIDs
                                \X ((0 .. MaxPower) \cup {60, 66, 67, 70}) }) :
      c.SignedPower <= v.TotalPower \/ ~v.WellFormed }

HdrClientStates ==
    [ChainID : {ChainID("gaia", NoSuffix), ChainID("gaia", 1)},
     TrustLevel : {TrustLevel(1, 3), TrustLevel(1, 2), TrustLevel(2, 3),
                   TrustLevel(1, 1)},
     TrustingPeriod : {1}, UnbondingPeriod : {2}, MaxClockDrift : {1},
     LatestHeight : {NewHeight(1, MaxHeight)},
     FrozenHeight : {ZeroHeight}]

HdrArgs ==
    { [cs |-> s, consState |-> ConsensusState(ts, "vals"),
       header |-> [ChainID |-> id, BlockHeight |-> 1, Time |-> 1,
                   TrustedHeight |-> NewHeight(1, 1),
                   TrustedValidators |-> vc[1], Commit |-> vc[2]],
       currentTimestamp |-> now] :
      <<s, ts, id, vc, now>> \in
          HdrClientStates \X {0, 1} \X HdrChainIDs
              \X HdrValsAndCommits \X BlockTimes }

NoArgs == << >>

NoCall == << >>

NoQuery == << >>

(***************************************************************************)
(* The client specification: misbehaviour submissions against one client.  *)
(***************************************************************************)
Init ==
    /\ clientState \in ClientStates
    /\ clientStore \in ClientStores
    /\ pc = "idle"
    /\ call = NoCall
    /\ frozenAt = clientState.FrozenHeight
    /\ hdrArgs = NoArgs
    /\ hdrErr = NoError
    /\ query = NoQuery

\* one call of CheckMisbehaviourAndUpdateState on the stored client state:
\* the receiver is a copy, the store is only read
CheckMisbehaviour ==
    /\ pc = "idle"
    /\ \E misbehaviour \in Misbehaviours, ctx \in Contexts :
         call' = <<[cs |-> clientState, ctx |-> ctx,
                    misbehaviour |-> misbehaviour,
                    ret |-> CheckMisbehaviourAndUpdateState(
                                clientState, ctx, clientStore, misbehaviour)]>>
    /\ pc' = "returned"
    /\ UNCHANGED <<clientState, clientStore, frozenAt, hdrArgs, hdrErr, query>>

\* the caller persists the returned client state if no error occurred
Persist ==
    /\ pc = "returned"
    /\ clientState' = IF call[1].ret.Err = NoError
                      THEN call[1].ret.ClientState[1]
                      ELSE clientState
    /\ frozenAt' = IF LT(frozenAt, clientState'.FrozenHeight)
                   THEN clientState'.FrozenHeight
                   ELSE frozenAt
    /\ pc' = "idle"
    /\ call' = NoCall
    /\ UNCHANGED <<clientStore, hdrArgs, hdrErr, query>>

Next == CheckMisbehaviour \/ Persist

Spec == Init /\ [][Next]_vars

(***************************************************************************)
(* The header specification: checkMisbehaviourHeader on bounded inputs.    *)
(***************************************************************************)
InitHeader ==
    /\ clientState \in {s \in ClientStates :
                          s.FrozenHeight = ZeroHeight
                          /\ s.LatestHeight = NewHeight(1, MaxHeight)}
    /\ clientStore \in {s \in ClientStores : DOMAIN s = {NewHeight(1, 1)}}
    /\ pc = "header"
    /\ call = NoCall
    /\ frozenAt = ZeroHeight
    /\ hdrArgs \in {<<a>> : a \in HdrArgs}
    /\ hdrErr = NoError
    /\ query = NoQuery

CheckHeader ==
    /\ pc = "header"
    /\ hdrErr' = checkMisbehaviourHeader(
                     hdrArgs[1].cs, hdrArgs[1].consState, hdrArgs[1].header,
                     hdrArgs[1].currentTimestamp)
    /\ pc' = "checked"
    /\ UNCHANGED <<clientState, clientStore, call, frozenAt, hdrArgs, query>>

NextHeader == CheckHeader

SpecHeader == InitHeader /\ [][NextHeader]_vars

(***************************************************************************)
(* The block-age specification: one call on a client whose latest height   *)
(* and a misbehaviour whose height range over the whole unsigned width.    *)
(***************************************************************************)
AgeHeights == 0 .. (2 ^ UintBits - 1)

AgeClientStates ==
    [ChainID : {ClientChainID}, TrustLevel : {TrustLevel(2, 3)},
     TrustingPeriod : {1}, UnbondingPeriod : {2}, MaxClockDrift : {1},
     LatestHeight : {NewHeight(1, h) : h \in AgeHeights},
     FrozenHeight : {ZeroHeight}]

\* two headers at the same height whose commits carry enough power
AgeMisbehaviours ==
    { m \in UNION { [Tendermint : {TRUE},
                     Header1 : Headers(c, h), Header2 : Headers(c, h)] :
                    <<c, h>> \in HeaderChainIDs \X AgeHeights } :
        /\ m.Header1 = m.Header2
        /\ m.Header1.Commit.WellFormed
        /\ m.Header1.Commit.SignedPower = 70 }

InitAge ==
    /\ clientState \in AgeClientStates
    /\ clientStore \in {s \in ClientStores : DOMAIN s = TrustedHeights}
    /\ pc = "idle"
    /\ call = NoCall
    /\ frozenAt = ZeroHeight
    /\ hdrArgs = NoArgs
    /\ hdrErr = NoError
    /\ query = NoQuery

CheckAgedMisbehaviour ==
    /\ pc = "idle"
    /\ \E misbehaviour \in AgeMisbehaviours, ctx \in Contexts :
         call' = <<[cs |-> clientState, ctx |-> ctx,
                    misbehaviour |-> misbehaviour,
                    ret |-> CheckMisbehaviourAndUpdateState(
                                clientState, ctx, clientStore, misbehaviour)]>>
    /\ pc' = "returned"
    /\ UNCHANGED <<clientState, clientStore, frozenAt, hdrArgs, hdrErr, query>>

NextAge == CheckAgedMisbehaviour

SpecAge == InitAge /\ [][NextAge]_vars

(***************************************************************************)
(* Pagination of a prefix store (query.Paginate, as exercised by           *)
(* TestPagination).  The store holds the records 1 .. n in iteration       *)
(* order; the key of a record is its position.                             *)
(***************************************************************************)
ErrOffsetAndKey ==
    "invalid request, either offset or key is expected, got both"

PageNoError == "nil"

PageRequest(key, offset, limit, countTotal) ==
    [Key |-> key, Offset |-> offset, Limit |-> limit, CountTotal |-> countTotal]

PageResponse(err, records, nextKey, total) ==
    [Err |-> err, Records |-> records, NextKey |-> nextKey, Total |-> total]

\* the records first .. last of the store, in iteration order
RecordsFrom(first, last) ==
    IF last < first THEN << >>
    ELSE [i \in 1 .. (last - first + 1) |-> first + i - 1]

\* a variant that lets a request with both an offset and a key through
KeyAndOffset_KeyWins(req) == FALSE

\* the request sets both an offset and a key
KeyAndOffset(req) == req.Offset > 0 /\ req.Key # << >>

\* the limit in force: maxLimit when the request gives none or a larger one
PageLimit(req) ==
    IF req.Limit = 0 \/ req.Limit > maxLimit THEN maxLimit ELSE req.Limit

\* a variant that names the last record of the page as the next key
NextKeyOfKeyPage_LastRecord(n, first, limit) ==
    IF first + limit <= n THEN <<first + limit - 1>> ELSE << >>

\* the key page: the key of the first record past the page, nil at the end
NextKeyOfKeyPage(n, first, limit) ==
    IF first + limit <= n THEN <<first + limit>> ELSE << >>

\* the offset page: the key of the first record past the page when the
\* total is not counted, nil at the end or when the total is counted
NextKeyOfOffsetPage(n, end, countTotal) ==
    IF ~countTotal /\ end < n THEN <<end + 1>> ELSE << >>

Paginate(n, req) ==
    IF KeyAndOffset(req)
    THEN PageResponse(ErrOffsetAndKey, << >>, << >>, 0)
    ELSE IF req.Key # << >>
         THEN PageResponse(
                  PageNoError,
                  RecordsFrom(req.Key[1],
                              Min(n, req.Key[1] + PageLimit(req) - 1)),
                  NextKeyOfKeyPage(n, req.Key[1], PageLimit(req)),
                  0)
         ELSE PageResponse(
                  PageNoError,
                  RecordsFrom(req.Offset + 1,
                              Min(n, req.Offset + PageLimit(req))),
                  NextKeyOfOffsetPage(n, req.Offset + PageLimit(req),
                                      req.CountTotal),
                  IF req.CountTotal THEN n ELSE 0)

(***************************************************************************)
(* Input sets of the pagination specification.                             *)
(***************************************************************************)
StoreSizes == (0 .. MaxRecords) \cup {numBalances}

PageLimits == (0 .. MaxPageLimit) \cup {underLimit, maxLimit, overLimit}

PageOffsets == (0 .. MaxRecords + 1) \cup {100, 200, 300}

PageKeys == {<< >>} \cup {<<k>> : k \in (1 .. MaxRecords) \cup {101}}

(***************************************************************************)
(* The pagination specification: a traversal by NextKey, or one request.   *)
(***************************************************************************)
InitPage ==
    /\ clientState \in {s \in ClientStates :
                          s.FrozenHeight = ZeroHeight
                          /\ s.LatestHeight = NewHeight(1, MaxHeight)}
    /\ clientStore \in {s \in ClientStores : DOMAIN s = {NewHeight(1, 1)}}
    /\ pc = "page"
    /\ call = NoCall
    /\ frozenAt = ZeroHeight
    /\ hdrArgs = NoArgs
    /\ hdrErr = NoError
    /\ query \in {<<[numRecords |-> n, traversal |-> FALSE, pages |-> 0,
                     countedTotal |-> FALSE, seen |-> << >>,
                     req |-> << >>, res |-> << >>]>> : n \in StoreSizes}

\* the first request of a traversal: an empty key and a limit
FirstPage ==
    /\ pc = "page"
    /\ \E limit \in PageLimits, countTotal \in BOOLEAN :
         LET req == PageRequest(<< >>, 0, limit, countTotal)
             res == Paginate(query[1].numRecords, req)
         IN  query' = <<[query[1] EXCEPT !.traversal = TRUE, !.pages = 1,
                                         !.countedTotal = countTotal,
                                         !.seen = res.Records,
                                         !.req = <<req>>, !.res = <<res>>]>>
    /\ pc' = "paged"
    /\ UNCHANGED <<clientState, clientStore, call, frozenAt, hdrArgs, hdrErr>>

\* the next request of a traversal: the returned NextKey and the same limit
NextPage ==
    /\ pc = "paged"
    /\ query[1].traversal
    /\ query[1].res[1].NextKey # << >>
    /\ \E countTotal \in BOOLEAN :
         LET req == PageRequest(query[1].res[1].NextKey, 0,
                                query[1].req[1].Limit, countTotal)
             res == Paginate(query[1].numRecords, req)
         IN  query' = <<[query[1] EXCEPT
                           !.pages = @ + 1,
                           !.countedTotal = @ \/ countTotal,
                           !.seen = @ \o res.Records,
                           !.req = <<req>>, !.res = <<res>>]>>
    /\ UNCHANGED <<clientState, clientStore, pc, call, frozenAt, hdrArgs, hdrErr>>

\* one request with any key and offset
SinglePage ==
    /\ pc = "page"
    /\ \E key \in PageKeys, offset \in PageOffsets, limit \in PageLimits,
          countTotal \in BOOLEAN :
         LET req == PageRequest(key, offset, limit, countTotal)
             res == Paginate(query[1].numRecords, req)
         IN  query' = <<[query[1] EXCEPT !.pages = 1,
                                         !.countedTotal = countTotal,
                                         !.seen = res.Records,
                                         !.req = <<req>>, !.res = <<res>>]>>
    /\ pc' = "paged"
    /\ UNCHANGED <<clientState, clientStore, call, frozenAt, hdrArgs, hdrErr>>

NextPaging == FirstPage \/ NextPage \/ SinglePage

SpecPage == InitPage /\ [][NextPaging]_vars

(***************************************************************************)
(* The call that has returned, and what it computed on the way.            *)
(***************************************************************************)
Returned == pc = "returned"

Call == call[1]

CallHeight == MisbehaviourGetHeight(Call.misbehaviour)

\* the call got past the type check and the frozen check
CallPassedFrozenCheck ==
    /\ Call.misbehaviour.Tendermint
    /\ ~(IsFrozen(Call.cs) /\ LTE(Call.cs.FrozenHeight, CallHeight))

\* the call found both trusted consensus states
CallFoundConsensusStates ==
    /\ Call.misbehaviour.Header1.TrustedHeight \in DOMAIN clientStore
    /\ Call.misbehaviour.Header2.TrustedHeight \in DOMAIN clientStore

\* the call reached the staleness check
CallReachedStaleness == CallPassedFrozenCheck /\ CallFoundConsensusStates

CallHasEvidenceParams ==
    /\ Call.ctx.ConsensusParams # << >>
    /\ Call.ctx.ConsensusParams[1].Evidence # << >>

CallEvidence == Call.ctx.ConsensusParams[1].Evidence[1]

CallAgeDuration == AgeDuration(Call.ctx, Call.misbehaviour)

CallAgeBlocks == AgeBlocks(Call.cs, Call.misbehaviour)

CallSameEpoch ==
    CallHeight.VersionNumber = Call.cs.LatestHeight.VersionNumber

(***************************************************************************)
(* C1.  Freeze monotonicity over sequences of calls.                       *)
(***************************************************************************)
\* C1 as stated: over any sequence of calls in which each successful result
\* becomes the next client state, a frozen height, once set, is never
\* cleared and never moves to an earlier height.
C1_NeverMovesEarlier ==
    [][IsFrozen(clientState)
         => /\ IsFrozen(clientState')
            /\ LTE(clientState.FrozenHeight, clientState'.FrozenHeight)]_vars

\* C1 amended: over any such sequence a frozen height, once set, is never
\* cleared and never moves to a later height than one it held before;
\* when it changes, it moves to a strictly earlier height.
C1_NeverMovesLater ==
    [][IsFrozen(clientState)
         => /\ IsFrozen(clientState')
            /\ LTE(clientState'.FrozenHeight, clientState.FrozenHeight)
            /\ LTE(clientState'.FrozenHeight, frozenAt)]_vars

\* a frozen client is about to be frozen again, at an earlier height
C1_Witness ==
    /\ Returned
    /\ IsFrozen(Call.cs)
    /\ Call.ret.Err = NoError
    /\ LT(Call.ret.ClientState[1].FrozenHeight, clientState.FrozenHeight)

(***************************************************************************)
(* C2.  Calls after a freeze.                                              *)
(***************************************************************************)
\* C2 as stated: once the client has been frozen at height h, every later
\* call whose misbehaviour height h' satisfies h' <= h fails with
\* AlreadyFrozen.
C2_FailsAtOrBelowFreeze ==
    Returned /\ Call.misbehaviour.Tendermint
             /\ IsFrozen(Call.cs) /\ LTE(CallHeight, frozenAt)
        => Call.ret.Err = ErrAlreadyFrozen

\* C2 amended: once the client has been frozen at height h, every later
\* call with a Tendermint misbehaviour whose height h' satisfies h' >= h
\* fails with AlreadyFrozen, whatever the validity of the two headers.
C2_FailsAtOrAboveFreeze ==
    Returned /\ Call.misbehaviour.Tendermint
             /\ ~IsZero(frozenAt) /\ LTE(frozenAt, CallHeight)
        => Call.ret.Err = ErrAlreadyFrozen

\* the freeze has moved below the height h it was first set at, and a
\* misbehaviour at h, which would otherwise freeze the client, is refused
C2_Witness ==
    /\ Returned
    /\ LT(Call.cs.FrozenHeight, frozenAt)
    /\ CallHeight = frozenAt
    /\ Call.ret.Err = ErrAlreadyFrozen
    /\ CallFoundConsensusStates
    /\ VerifyHeadersAndFreeze(
           Call.cs, Call.ctx,
           clientStore[Call.misbehaviour.Header1.TrustedHeight][1],
           clientStore[Call.misbehaviour.Header2.TrustedHeight][1],
           Call.misbehaviour).Err = NoError

(***************************************************************************)
(* C3.  A frozen client refuses misbehaviour at or after its freeze.       *)
(***************************************************************************)
\* C3: whenever the client is frozen and frozen_height <= misbehaviour
\* height, the call returns an error and no client state; the error is
\* AlreadyFrozen for every misbehaviour that passes the type check.
C3_FrozenRefuses ==
    Returned /\ IsFrozen(Call.cs) /\ LTE(Call.cs.FrozenHeight, CallHeight)
        => /\ Call.ret.Err # NoError
           /\ Call.ret.ClientState = << >>
           /\ Call.misbehaviour.Tendermint
                => Call.ret.Err = ErrAlreadyFrozen

\* a frozen client refuses a misbehaviour above its freeze whose headers
\* would both verify
C3_Witness ==
    /\ Returned
    /\ IsFrozen(Call.cs)
    /\ LT(Call.cs.FrozenHeight, CallHeight)
    /\ Call.ret = Fail(ErrAlreadyFrozen)
    /\ CallFoundConsensusStates
    /\ ~IsStale(Call.ctx.ConsensusParams, CallAgeDuration, CallAgeBlocks)
    /\ Call.misbehaviour.Header1.Commit.SignedPower = 70
    /\ Call.misbehaviour.Header2.Commit.SignedPower = 70

C5_EpochCrossingAge ==
    Returned /\ Call.misbehaviour.Tendermint
        => /\ ~CallSameEpoch
                => /\ CallAgeBlocks = 0
                   /\ CallReachedStaleness /\ CallHasEvidenceParams
                        => (Call.ret.Err = ErrStaleMisbehaviour
                              <=> CallAgeDuration
                                      > CallEvidence.MaxAgeDuration)
           /\ CallSameEpoch
                => CallAgeBlocks
                       = Call.cs.LatestHeight.VersionHeight
                             - CallHeight.VersionHeight

\* a misbehaviour of another epoch, more than maxAgeNumBlocks below the
\* latest version height, young enough in time, is not rejected as stale
C5_Witness ==
    /\ Returned
    /\ CallReachedStaleness /\ CallHasEvidenceParams
    /\ ~CallSameEpoch
    /\ Call.cs.LatestHeight.VersionHeight - CallHeight.VersionHeight
           > CallEvidence.MaxAgeNumBlocks
    /\ CallAgeDuration <= CallEvidence.MaxAgeDuration
    /\ Call.ret.Err # ErrStaleMisbehaviour

(***************************************************************************)
(* The header check that has run (header specification).                   *)
(***************************************************************************)
Checked == pc = "checked"

Args == hdrArgs[1]

\* the validator set and the commit decode and the trusted fields match
ArgsPassTrustedFields ==
    /\ Args.header.TrustedValidators.WellFormed
    /\ Args.header.Commit.WellFormed
    /\ Args.header.TrustedValidators.Hash = Args.consState.NextValidatorsHash

ArgsElapsed == Args.currentTimestamp - Args.consState.Timestamp

\* the commit is signed for the chain identifier the check expects
ArgsSignedForChain ==
    Args.header.Commit.SignedChainID = TrustChainID(Args.cs, Args.header)

\* ceil(trust_level * total power)
ArgsThreshold ==
    LET n == Args.cs.TrustLevel.Numerator
            * Args.header.TrustedValidators.TotalPower
        d == Args.cs.TrustLevel.Denominator
    IN  (n + d - 1) \div d

(***************************************************************************)
(* C6.  The unbonding period.                                              *)
(***************************************************************************)
\* C6: if currentTime - trustedConsensusState.timestamp >= unbonding_period
\* the header check fails, whether or not the commit would pass the trust
\* evaluation; with the validator set and commit decoded and the trusted
\* fields matching, the error is UnbondingPeriodExpired; exact equality
\* fails too.
C6_UnbondingPeriodExpired ==
    Checked /\ ArgsElapsed >= Args.cs.UnbondingPeriod
        => /\ hdrErr # NoError
           /\ ArgsPassTrustedFields
                => hdrErr = Err("UnbondingPeriodExpired", 0)

\* exactly an unbonding period has passed and the commit carries enough
\* trusted power for the right chain: the check fails all the same
C6_Witness ==
    /\ Checked
    /\ ArgsElapsed = Args.cs.UnbondingPeriod
    /\ ArgsPassTrustedFields
    /\ ArgsSignedForChain
    /\ Args.header.Commit.SignedPower >= ArgsThreshold
    /\ hdrErr = Err("UnbondingPeriodExpired", 0)

(***************************************************************************)
(* C7.  No mutation on failure.                                            *)
(***************************************************************************)
\* C7: a failing call returns no client state and leaves the caller's
\* client state and the client store as they were, through the call and
\* through the caller's handling of its result.
C7_NoMutationOnFailure ==
    [][/\ pc' = "returned" /\ call'[1].ret.Err # NoError
            => /\ call'[1].ret.ClientState = << >>
               /\ clientState' = clientState
               /\ clientStore' = clientStore
       /\ pc = "returned" /\ call[1].ret.Err # NoError
            => /\ clientState' = clientState
               /\ clientStore' = clientStore]_vars

\* a call failed on its second header, after the first verified
C7_Witness ==
    /\ Returned
    /\ Call.ret.Err = Err("InsufficientTrustedPower", 2)
    /\ Call.ret.ClientState = << >>
    /\ clientState = Call.cs

(***************************************************************************)
(* C8.  The effect of success.                                             *)
(***************************************************************************)
\* C8: a successful call returns the input client state with frozen_height
\* set to the misbehaviour's height and every other field unchanged; the
\* latest height never decreases and the store is never written.
C8_EffectOfSuccess ==
    [][/\ pc' = "returned" /\ call'[1].ret.Err = NoError
            => call'[1].ret.ClientState
                   = <<[clientState EXCEPT
                          !.FrozenHeight =
                              MisbehaviourGetHeight(call'[1].misbehaviour)]>>
       /\ LTE(clientState.LatestHeight, clientState'.LatestHeight)
       /\ clientStore' = clientStore]_vars

\* a call succeeded on a misbehaviour below the client's latest height
C8_Witness ==
    /\ Returned
    /\ Call.ret.Err = NoError
    /\ LT(CallHeight, Call.cs.LatestHeight)
    /\ Call.ret.ClientState[1].FrozenHeight = CallHeight
    /\ Call.ret.ClientState[1].LatestHeight = Call.cs.LatestHeight

CallErr1 ==
    checkMisbehaviourHeader(
        Call.cs, clientStore[Call.misbehaviour.Header1.TrustedHeight][1],
        Call.misbehaviour.Header1, Call.ctx.BlockTime)

CallErr2 ==
    checkMisbehaviourHeader(
        Call.cs, clientStore[Call.misbehaviour.Header2.TrustedHeight][1],
        Call.misbehaviour.Header2, Call.ctx.BlockTime)

HeaderCheckKinds ==
    {"MalformedValidatorSet", "MalformedCommit", "InvalidValidatorSet",
     "UnbondingPeriodExpired", "InsufficientTrustedPower"}

\* C10: the client is frozen only if header1 passes the per-header check
\* against consensusState1 and header2 passes it against consensusState2;
\* a failing header aborts with its error tagged with that header, header1
\* first, and an error tagged header2 is returned only when header1 passed.
C10_BothHeadersVerify ==
    Returned
        => /\ Call.ret.Err = NoError
                => /\ CallFoundConsensusStates
                   /\ CallErr1 = NoError
                   /\ CallErr2 = NoError
           /\ Call.ret.Err.Kind \in HeaderCheckKinds
                => /\ CallFoundConsensusStates
                   /\ IF CallErr1 # NoError
                      THEN Call.ret.Err = WrapHeader(CallErr1, 1)
                      ELSE Call.ret.Err = WrapHeader(CallErr2, 2)
                           /\ CallErr2 # NoError

\* the headers name different trusted heights and only the second header's
\* consensus state is too old: the error names header2
C10_Witness ==
    /\ Returned
    /\ Call.misbehaviour.Header1.TrustedHeight
           # Call.misbehaviour.Header2.TrustedHeight
    /\ Call.ret.Err = Err("UnbondingPeriodExpired", 2)
    /\ CallErr1 = NoError

(***************************************************************************)
(* C11.  Missing trust basis.                                              *)
(***************************************************************************)
CallMissing1 ==
    Call.misbehaviour.Header1.TrustedHeight \notin DOMAIN clientStore

CallMissing2 ==
    Call.misbehaviour.Header2.TrustedHeight \notin DOMAIN clientStore

\* C11: if the store holds no consensus state at header1.trusted_height or
\* none at header2.trusted_height, the call fails and returns no client
\* state, however the headers are signed; once past the type and frozen
\* checks the error is TrustedConsensusStateNotFound, naming header1 when
\* its lookup fails and header2 only when header1's lookup succeeded.
C11_MissingTrustBasis ==
    Returned /\ Call.misbehaviour.Tendermint /\ (CallMissing1 \/ CallMissing2)
        => /\ Call.ret.Err # NoError
           /\ Call.ret.ClientState = << >>
           /\ CallPassedFrozenCheck
                => Call.ret.Err
                       = ErrConsensusStateNotFound(
                             IF CallMissing1 THEN 1 ELSE 2)

\* both lookups fail, both commits carry 70 of 100: the error names header1
C11_Witness ==
    /\ Returned
    /\ CallMissing1 /\ CallMissing2
    /\ Call.misbehaviour.Header1.Commit.SignedPower = 70
    /\ Call.misbehaviour.Header2.Commit.SignedPower = 70
    /\ Call.ret = Fail(ErrConsensusStateNotFound(1))

(***************************************************************************)
(* C14.  The order of the checks of CheckMisbehaviourAndUpdateState.       *)
(***************************************************************************)
\* whether the call's inputs fail the check of a rank, taken on its own:
\* 1 type, 2 already frozen, 3 consensus state of header1, 4 of header2,
\* 5 staleness, 6 header1 verification, 7 header2 verification
CheckFails(rank) ==
    CASE rank = 1 -> ~Call.misbehaviour.Tendermint
      [] rank = 2 -> /\ ~IsZero(Call.cs.FrozenHeight)
                     /\ LTE(Call.cs.FrozenHeight, CallHeight)
      [] rank = 3 -> CallMissing1
      [] rank = 4 -> CallMissing2
      [] rank = 5 -> /\ CallHasEvidenceParams
                     /\ \/ CallAgeDuration > CallEvidence.MaxAgeDuration
                        \/ CallAgeBlocks > CallEvidence.MaxAgeNumBlocks
      [] rank = 6 -> ~CallMissing1 /\ CallErr1 # NoError
      [] rank = 7 -> ~CallMissing2 /\ CallErr2 # NoError

\* the error the check of a rank returns
CheckError(rank) ==
    CASE rank = 1 -> ErrInvalidClientType
      [] rank = 2 -> ErrAlreadyFrozen
      [] rank = 3 -> ErrConsensusStateNotFound(1)
      [] rank = 4 -> ErrConsensusStateNotFound(2)
      [] rank = 5 -> ErrStaleMisbehaviour
      [] rank = 6 -> WrapHeader(CallErr1, 1)
      [] rank = 7 -> WrapHeader(CallErr2, 2)

FailingChecks == {rank \in 1 .. 7 : CheckFails(rank)}

FirstFailingCheck ==
    CHOOSE rank \in FailingChecks : \A other \in FailingChecks : rank <= other

\* C14: the checks run in the order type, already-frozen, consensus state
\* of header1, of header2, staleness, header1, header2, and the error
\* returned is that of the first check in this order that fails; the call
\* succeeds when none fails.
C14_OrderOfChecks ==
    Returned
        => IF FailingChecks = {}
           THEN Call.ret.Err = NoError
           ELSE Call.ret.Err = CheckError(FirstFailingCheck)

\* a frozen client with a missing consensus state gets AlreadyFrozen
C14_Witness ==
    /\ Returned
    /\ Call.misbehaviour.Tendermint
    /\ CheckFails(2)
    /\ CheckFails(3)
    /\ Call.ret.Err = ErrAlreadyFrozen

(***************************************************************************)
(* C19.  No consensus params or no evidence params: no staleness check.    *)
(***************************************************************************)
\* the checks other than the staleness check, by rank
RemainingChecks == {1, 2, 3, 4, 6, 7}

RemainingFailing == {rank \in RemainingChecks : CheckFails(rank)}

\* C19: when the context has no consensus params, or they have no evidence
\* params, no misbehaviour is rejected as stale, and the call succeeds
\* exactly when every check other than the staleness one passes, failing
\* otherwise with the error of one of those checks.
C19_NoParamsNoStaleness ==
    Returned /\ ~CallHasEvidenceParams
        => /\ Call.ret.Err # ErrStaleMisbehaviour
           /\ Call.ret.Err = NoError <=> RemainingFailing = {}
           /\ Call.ret.Err # NoError
                => \E rank \in RemainingFailing :
                       Call.ret.Err = CheckError(rank)

\* an old misbehaviour (both ages above what the evidence params of the
\* model would allow) freezes the client when the params are absent
C19_Witness ==
    /\ Returned
    /\ ~CallHasEvidenceParams
    /\ Call.misbehaviour.Tendermint
    /\ ~CallMissing1 /\ ~CallMissing2
    /\ CallAgeDuration > 1
    /\ CallAgeBlocks > 1
    /\ Call.ret.Err = NoError
    /\ Call.ret.ClientState[1].FrozenHeight = CallHeight

(***************************************************************************)
(* C15.  The order of the per-header check.                                *)
(***************************************************************************)
\* whether the arguments fail the per-header check of a rank, taken on its
\* own: 1 validator-set decode, 2 commit decode, 3 trusted-field match,
\* 4 unbonding period, 5 trust evaluation
HeaderCheckFails(rank) ==
    CASE rank = 1 -> ~Args.header.TrustedValidators.WellFormed
      [] rank = 2 -> ~Args.header.Commit.WellFormed
      [] rank = 3 -> Args.header.TrustedValidators.Hash
                         # Args.consState.NextValidatorsHash
      [] rank = 4 -> ArgsElapsed >= Args.cs.UnbondingPeriod
      [] rank = 5 -> \/ ~ArgsSignedForChain
                     \/ Args.header.Commit.SignedPower < ArgsThreshold

HeaderCheckError(rank) ==
    CASE rank = 1 -> Err("MalformedValidatorSet", 0)
      [] rank = 2 -> Err("MalformedCommit", 0)
      [] rank = 3 -> Err("InvalidValidatorSet", 0)
      [] rank = 4 -> Err("UnbondingPeriodExpired", 0)
      [] rank = 5 -> Err("InsufficientTrustedPower", 0)

HeaderFailingChecks == {rank \in 1 .. 5 : HeaderCheckFails(rank)}

FirstFailingHeaderCheck ==
    CHOOSE rank \in HeaderFailingChecks :
        \A other \in HeaderFailingChecks : rank <= other

\* C15: the per-header check decodes the validator set, decodes the commit,
\* matches the trusted validators against the consensus state's
\* NextValidatorsHash, checks the unbonding period and then evaluates the
\* trust, returning the error of the first of these that fails; a header
\* whose decoded trusted validators do not hash to the consensus state's
\* NextValidatorsHash is rejected as an invalid validator set whatever the
\* unbonding period and the commit are, so it is never accepted.
C15_OrderOfHeaderCheck ==
    Checked
        => /\ IF HeaderFailingChecks = {}
              THEN hdrErr = NoError
              ELSE hdrErr = HeaderCheckError(FirstFailingHeaderCheck)
           /\ ~HeaderCheckFails(1) /\ ~HeaderCheckFails(2) /\ HeaderCheckFails(3)
                => hdrErr = Err("InvalidValidatorSet", 0)

\* an unrelated validator set whose commit would pass the trust evaluation,
\* presented when the unbonding period has passed too
C15_Witness ==
    /\ Checked
    /\ ~HeaderCheckFails(1) /\ ~HeaderCheckFails(2)
    /\ HeaderCheckFails(3)
    /\ HeaderCheckFails(4)
    /\ ~HeaderCheckFails(5)
    /\ hdrErr = Err("InvalidValidatorSet", 0)

(***************************************************************************)
(* C16.  The chain identifier of the trust evaluation.                     *)
(***************************************************************************)
\* the epoch of the header's height: the number after the last "-" of the
\* header's chain identifier when it is in epoch format, 0 otherwise
ArgsHeaderEpoch ==
    IF Args.header.ChainID.Suffix >= 1 THEN Args.header.ChainID.Suffix ELSE 0

\* the identifier the claim expects the commit to be signed for
ArgsExpectedChainID ==
    IF Args.cs.ChainID.Suffix >= 1
    THEN [Base |-> Args.cs.ChainID.Base, Suffix |-> ArgsHeaderEpoch]
    ELSE Args.cs.ChainID

\* C16: a header that reaches the trust evaluation with enough signed
\* power passes exactly when its commit is signed for the client's chain
\* identifier with the epoch number replaced by the epoch of the header's
\* height (client identifier in epoch format) or for the client's chain
\* identifier itself (otherwise); a commit signed for any other identifier
\* fails the trust evaluation.
C16_TrustChainID ==
    Checked /\ ArgsPassTrustedFields
            /\ ArgsElapsed < Args.cs.UnbondingPeriod
            /\ Args.header.Commit.SignedPower >= ArgsThreshold
        => IF Args.header.Commit.SignedChainID = ArgsExpectedChainID
           THEN hdrErr = NoError
           ELSE hdrErr = Err("InsufficientTrustedPower", 0)

\* a client of gaia-1 accepts a header of epoch 2 signed for gaia-2
C16_Witness ==
    /\ Checked
    /\ Args.cs.ChainID = ChainID("gaia", 1)
    /\ Args.header.ChainID = ChainID("gaia", 2)
    /\ Args.header.Commit.SignedChainID = ChainID("gaia", 2)
    /\ hdrErr = NoError

(***************************************************************************)
(* C18.  The block-age arithmetic.                                         *)
(***************************************************************************)
\* the difference of the two version heights as integers
CallHeightDifference ==
    Call.cs.LatestHeight.VersionHeight - CallHeight.VersionHeight

\* the two heights are less than half the unsigned range apart
CallHeightsClose ==
    /\ CallHeightDifference < 2 ^ (UintBits - 1)
    /\ -CallHeightDifference < 2 ^ (UintBits - 1)

\* C18: in the same epoch, for heights less than half the unsigned range
\* apart, ageBlocks is the true signed difference latest height minus
\* misbehaviour height, the call is rejected as stale exactly when the
\* evidence params are present and ageDuration or that difference exceeds
\* its bound, and so a misbehaviour above the latest height (a negative
\* difference) is not rejected as stale unless ageDuration exceeds its bound.
C18_BlockAge ==
    Returned /\ CallSameEpoch /\ CallHeightsClose
        => /\ CallAgeBlocks = CallHeightDifference
           /\ Call.ret.Err = ErrStaleMisbehaviour
                <=> /\ CallHasEvidenceParams
                    /\ \/ CallAgeDuration > CallEvidence.MaxAgeDuration
                       \/ CallHeightDifference > CallEvidence.MaxAgeNumBlocks
           /\ CallHeightDifference < 0
                /\ (CallHasEvidenceParams
                      => CallAgeDuration <= CallEvidence.MaxAgeDuration)
                => Call.ret.Err # ErrStaleMisbehaviour

\* a misbehaviour above the latest height, with evidence params in force,
\* freezes the client
C18_Witness ==
    /\ Returned
    /\ CallSameEpoch
    /\ CallHasEvidenceParams
    /\ CallHeightDifference = -3
    /\ Uint64Sub(Call.cs.LatestHeight.VersionHeight, CallHeight.VersionHeight)
           = 2 ^ UintBits - 3
    /\ Call.ret.Err = NoError

(***************************************************************************)
(* The page that has been served (pagination specification).               *)
(***************************************************************************)
Paged == pc = "paged"

Query == query[1]

Req == Query.req[1]

Res == Query.res[1]

\* the records served so far are the first records of the store, in
\* order, each once
SeenEachOnce == \A i \in 1 .. Len(Query.seen) : Query.seen[i] = i

\* what a traversal with a limit within 1 .. maxLimit shows at every page;
\* the total is 0 on a page whose request does not count it
TraversalPageIsRight ==
    /\ Res.Err = PageNoError
    /\ Len(Res.Records) <= Req.Limit
    /\ SeenEachOnce
    /\ Res.NextKey # << >> <=> Len(Query.seen) < Query.numRecords
    /\ Res.NextKey = << >> => Len(Query.seen) = Query.numRecords
    /\ ~Req.CountTotal => Res.Total = 0
    /\ Query.numRecords = numBalances /\ Req.Limit = maxLimit
         => Len(Res.Records)
                = IF Query.pages <= 2 THEN maxLimit ELSE lastPageRecords

(***************************************************************************)
(* C12.  Traversal by key.                                                 *)
(***************************************************************************)
\* C12 as stated, for limits 1 <= L <= 100 (a limit of 0 asks for the
\* default limit): over N records, starting with an empty key and the
\* limit L and passing the returned NextKey on, every page holds at most L
\* records, NextKey is non-nil on every page before the last and nil on the
\* page that reaches the end, the pages return each record exactly once,
\* and Total is 0 whenever CountTotal is false; the requests may set
\* CountTotal or not.
C12_TraversalAnyCountTotal ==
    Paged /\ Query.traversal /\ Req.Limit >= 1 /\ Req.Limit <= maxLimit
        => TraversalPageIsRight

\* C12: over N records, starting with an empty key and a limit L
\* (1 <= L <= 100), with CountTotal false on every request, and passing
\* the returned NextKey on, every page holds at most L records, NextKey is
\* non-nil on every page before the last and nil on the page that reaches
\* the end, the pages return each record exactly once, in order, and Total
\* is 0; 235 records at limit 100 give pages of 100, 100 and 35.
C12_Traversal ==
    Paged /\ Query.traversal /\ Req.Limit >= 1 /\ Req.Limit <= maxLimit
          /\ ~Query.countedTotal
        => TraversalPageIsRight

\* 235 records at limit 100: the third page holds 35 records and ends the
\* traversal
C12_Witness ==
    /\ Paged
    /\ Query.traversal
    /\ ~Query.countedTotal
    /\ Query.numRecords = numBalances
    /\ Req.Limit = maxLimit
    /\ Query.pages = 3
    /\ Len(Res.Records) = lastPageRecords
    /\ Res.NextKey = << >>
    /\ Len(Query.seen) = numBalances

(***************************************************************************)
(* C13.  Offset and key.                                                   *)
(***************************************************************************)
\* C13: a request that sets both a key and an offset is rejected with the
\* error "invalid request, either offset or key is expected, got both" and
\* returns no records; a request with an offset alone succeeds and returns
\* the records from that offset on, up to the limit in force, and when the
\* offset is past the last record it returns no record and a nil NextKey.
C13_OffsetOrKey ==
    Paged /\ ~Query.traversal
        => /\ Req.Key # << >> /\ Req.Offset > 0
                => /\ Res.Err
                        = "invalid request, either offset or key is expected, got both"
                   /\ Res.Records = << >>
                   /\ Res.NextKey = << >>
           /\ Req.Key = << >> /\ Req.Offset > 0
                => /\ Res.Err = PageNoError
                   /\ \A i \in 1 .. Len(Res.Records) :
                          Res.Records[i] = Req.Offset + i
                   /\ Len(Res.Records) <= Query.numRecords - Req.Offset
                        \/ Len(Res.Records) = 0
                   /\ Req.Limit >= 1 /\ Req.Limit <= maxLimit
                        => Len(Res.Records)
                               = Min(Req.Limit,
                                     IF Query.numRecords > Req.Offset
                                     THEN Query.numRecords - Req.Offset
                                     ELSE 0)
                   /\ Req.Offset >= Query.numRecords
                        => Res.Records = << >> /\ Res.NextKey = << >>

\* the request of the test with the key 101 and the offset 100
C13_Witness ==
    /\ Paged
    /\ ~Query.traversal
    /\ Query.numRecords = numBalances
    /\ Req.Key = <<101>>
    /\ Req.Offset = 100
    /\ Req.Limit = maxLimit
    /\ Res.Err = ErrOffsetAndKey
    /\ Res.Records = << >>

====
